---- MODULE Spec2Model ----
(***************************************************************************)
(* The container process reaper of pyrex, src/docker/cleanup.py: main()    *)
(* parses the shutdown schedule, wait_for_processes() runs once per phase  *)
(* (NaturalExit with sig = None, Terminate with sig = SIGTERM), and the    *)
(* signal handler stop_process_waiting() clears keep_waiting.              *)
(*                                                                         *)
(* Durations are exact rationals [n, d] (n/d seconds).  The monotonic      *)
(* clock is read in whole ticks, Hz ticks per second.  The process table   *)
(* (/proc) is the environment: what a listing and each read of a stat or   *)
(* cmdline file return is chosen by the environment at the read.           *)
(*                                                                         *)
(* Two more programs are modelled next to it, each with variables of its   *)
(* own that the reaper leaves alone: the bind mounts of prep_container()   *)
(* in src/pyrex.py (SpecBinds), and the startup executables of the entry   *)
(* script, src/image/entry.py and src/docker/entry.py (SpecEntry).         *)
(***************************************************************************)
EXTENDS Integers, Sequences, FiniteSets, TLC

\* ------------------------------------------------------------------ bounds

\* Clock readings per second (the resolution at which time.monotonic() is read).
Hz == 2
\* The clock stops advancing at MaxSeconds seconds after the start of the run.
MaxSeconds == 22
\* By how many ticks the clock reading may advance over a scan, and over a
\* sleep beyond its whole ticks (the part of a tick that short sleeps add up to).
MaxLate == 1
\* How many os.kill calls the environment lets fail, per pid.
MaxKillErrors == 1
\* The longest schedule string InitParse enumerates.
MaxLen == 5
\* The most binds a configuration of InitBinds holds.
MaxBinds == 2
\* The most entries /usr/libexec/pyrex/startup.d holds in InitEntry.
MaxFiles == 3

\* --------------------------------------------------------- program constants

\* Mutant: the 'x' of Linux 2.6.33 to 3.13 is left out.
ALREADY_DEAD_STATES_NoOldDead == {"Z", "X"}

ALREADY_DEAD_STATES == {"Z", "X", "x"}

EXIT_WAIT_PHASES == 2

SIGNAL_ENABLE_WAIT_TIME == 10

\* [0.5, -1]
WAIT_FOREVER_DEFAULT == << [n |-> 5, d |-> 10], [n |-> -1, d |-> 1] >>

\* '-1'
DEFAULT_WAIT_TIME == << "-", "1" >>

\* The 2 of "time.monotonic() > start_time + 2".
THROTTLE_WAIT_TIME == 2

\* sleep_time = 0.01 and sleep_time = 0.5
SHORT_SLEEP == [n |-> 1, d |-> 100]
LONG_SLEEP == [n |-> 5, d |-> 10]

\* os.getpid() of the reaper; pid 1 is the container's init.
my_pid == 2

Pids == {1, my_pid, 3, 4}

\* Process state codes of the second field of /proc/<pid>/stat; "S" stands for
\* every code that is not in ALREADY_DEAD_STATES.
LiveStates == {"S"}
StateCodes == {"S", "Z", "X", "x"}

\* ------------------------------------------------------- strings and floats

Digits == {"0", "1", "2", "3", "4", "5", "6", "7", "8", "9"}

DigitVal(c) ==
    CASE c = "0" -> 0 [] c = "1" -> 1 [] c = "2" -> 2 [] c = "3" -> 3
      [] c = "4" -> 4 [] c = "5" -> 5 [] c = "6" -> 6 [] c = "7" -> 7
      [] c = "8" -> 8 [] c = "9" -> 9

RECURSIVE DigitsValue(_)
DigitsValue(ds) ==
    IF ds = << >> THEN 0
    ELSE DigitsValue(SubSeq(ds, 1, Len(ds) - 1)) * 10 + DigitVal(ds[Len(ds)])

RECURSIVE Pow10(_)
Pow10(k) == IF k = 0 THEN 1 ELSE 10 * Pow10(k - 1)

RECURSIVE SplitAcc(_, _, _)
SplitAcc(s, cur, acc) ==
    IF s = << >> THEN Append(acc, cur)
    ELSE IF Head(s) = "," THEN SplitAcc(Tail(s), << >>, Append(acc, cur))
    ELSE SplitAcc(Tail(s), Append(cur, Head(s)), acc)

\* str.split(','): a string is a sequence of characters.
split(s) == SplitAcc(s, << >>, << >>)

\* float(w) on the characters "-", ".", digits and letters: an optional sign,
\* digits with at most one point and at least one digit.  ok = FALSE is
\* ValueError.
float(w) ==
    LET neg == w # << >> /\ Head(w) = "-"
        body == IF neg THEN Tail(w) ELSE w
        dots == {i \in 1..Len(body) : body[i] = "."}
        wellformed ==
            /\ Cardinality(dots) <= 1
            /\ \A i \in 1..Len(body) : body[i] = "." \/ body[i] \in Digits
            /\ \E i \in 1..Len(body) : body[i] \in Digits
        dot == IF dots = {} THEN Len(body) + 1 ELSE CHOOSE i \in dots : TRUE
        ip == SubSeq(body, 1, dot - 1)
        fp == SubSeq(body, dot + 1, Len(body))
        mag == DigitsValue(ip \o fp)
    IN  IF wellformed
        THEN [ok |-> TRUE, n |-> IF neg THEN 0 - mag ELSE mag, d |-> Pow10(Len(fp))]
        ELSE [ok |-> FALSE, n |-> 0, d |-> 1]

\* int(sys.argv[1]) on an optional sign and digits.
int(w) ==
    IF w # << >> /\ Head(w) = "-" THEN 0 - DigitsValue(Tail(w)) ELSE DigitsValue(w)

\* [float(w) for w in exit_wait.split(',')]
ParseWaitTimes(exit_wait) ==
    LET toks == split(exit_wait)
    IN  [i \in 1..Len(toks) |-> float(toks[i])]

\* Mutant: the single value is given to each phase whole.
DivideByPhases_Whole(v) == v

\* exit_wait_times[0] / EXIT_WAIT_PHASES
DivideByPhases(v) == [n |-> v.n, d |-> v.d * EXIT_WAIT_PHASES]

\* Mutant: values after the second are dropped instead of rejected.
NormalizeWaitTimes_Truncate(vals) ==
    LET times == [i \in 1..Len(vals) |-> [n |-> vals[i].n, d |-> vals[i].d]]
    IN  IF Len(times) = 1
        THEN IF times[1].n < 0
             THEN WAIT_FOREVER_DEFAULT
             ELSE [i \in 1..EXIT_WAIT_PHASES |-> DivideByPhases(times[1])]
        ELSE SubSeq(times, 1, EXIT_WAIT_PHASES)

\* The normalisation of a parsed list: a single negative value selects
\* WAIT_FOREVER_DEFAULT, a single other value is divided over the phases.
NormalizeWaitTimes(vals) ==
    LET times == [i \in 1..Len(vals) |-> [n |-> vals[i].n, d |-> vals[i].d]]
    IN  IF Len(times) = 1
        THEN IF times[1].n < 0
             THEN WAIT_FOREVER_DEFAULT
             ELSE [i \in 1..EXIT_WAIT_PHASES |-> DivideByPhases(times[1])]
        ELSE times

\* sys.exit(main()): the status of the process is the low byte of the value.
ExitStatus(v) == v % 256

\* ---------------------------------------------------------------- the clock

\* time.monotonic() > start + secs, for a whole number of seconds.
After(t, start, secs) == t - start > secs * Hz

\* Mutant: the sign of max_wait is not tested.
TimedOut_AnySign(t, start, max_wait) ==
    (t - start) * max_wait.d > max_wait.n * Hz

\* Mutant: start_time is left out of the comparison.
TimedOut_FromRunStart(t, start, max_wait) ==
    max_wait.n >= 0 /\ t * max_wait.d > max_wait.n * Hz

\* max_wait >= 0 and time.monotonic() > start_time + max_wait
TimedOut(t, start, max_wait) ==
    max_wait.n >= 0 /\ (t - start) * max_wait.d > max_wait.n * Hz

\* The least number of ticks the clock reading advances over time.sleep(st).
SleepTicks(st) == (st.n * Hz) \div st.d

MaxTime == MaxSeconds * Hz

\* -------------------------------------------------------------------- state

VARIABLES
    argv1,                  \* sys.argv[1]
    exit_wait_env,          \* PYREX_CLEANUP_EXIT_WAIT, or << "unset" >>
    pc,                     \* where the program is
    exit_wait_times,        \* the parsed schedule
    phase,                  \* 0 before the first call, 1 NaturalExit, 2 Terminate
    sig,                    \* "None" or "SIGTERM": wait_for_processes' argument
    max_wait,               \* wait_for_processes' argument
    start_time,
    killed_processes,
    sleep_time,
    stat_files,             \* the pids of the stat files still to read in this scan
    still_running,          \* pid -> state code of the description
    signals_enabled,
    keep_waiting,
    keep_waiting_notified,
    now,                    \* the monotonic clock, in ticks
    blocked,                \* the interrupt signals are masked
    pending,                \* an interrupt signal is pending or on its way to the handler
    outcome,                \* "running", "returned" or "raised"
    ret,                    \* the value main() returned
    exit_status,            \* the status the process exits with
    log,                    \* how often each message was logged
    left_running,           \* the processes of the "left running" warning
    sigterms,               \* pid -> os.kill calls that sent SIGTERM
    kill_errors,            \* pid -> os.kill calls that raised
    kill_calls,             \* << pid, state >> of every "Killing ..." line
    returns,                \* why each call of wait_for_processes returned
    cancelled_at_call,      \* keep_waiting was False when this call started
    dead_found,             \* a stat file of this scan gave a dead state
    warned,                 \* this call logged the "Waiting for N processes" warning
    scanned,                \* this call has read a whole list of stat files
    seen_alive,             \* the pids this scan found to pass the test of line 135
    handlers_installed,     \* signal.signal(s, stop_process_waiting) has been called
    last_read               \* what the last iteration of "for p in stat_files" did

VARIABLES
    binds,                  \* set(binds): the configured binds, each a string
    existing,               \* the paths os.path.exists() is true of
    bind_todo,              \* the binds "for b in set(binds)" has not reached
    engine_args,            \* prep_container's list, then the value it returned
    pyrex_pc,               \* "binds", "run" or "done"
    pyrex_outcome,          \* "running", "exited", "raised" or "exec"
    pyrex_status            \* the status pyrex exited with

VARIABLES
    skip_startup_env,       \* PYREX_SKIP_STARTUP, or << "unset" >>
    startup_d,              \* os.listdir("/usr/libexec/pyrex/startup.d")
    last_cap,               \* the number read from /proc/sys/kernel/cap_last_cap
    listing_pos,            \* the entries of startup_d the loop has passed
    startup_ran,            \* the positions in startup_d of the executables that ran
    entry_pc,               \* "startup", "exec" or "done"
    entry_status,           \* the status the entry script exited with
    user_command            \* setpriv was exec'ed to run the user's command

BindVars == << binds, existing, bind_todo, engine_args, pyrex_pc, pyrex_outcome,
               pyrex_status >>
EntryVars == << skip_startup_env, startup_d, last_cap, listing_pos, startup_ran,
                entry_pc, entry_status, user_command >>

vars == << argv1, exit_wait_env, pc, exit_wait_times, phase, sig, max_wait,
           start_time, killed_processes, sleep_time, stat_files, still_running,
           signals_enabled, keep_waiting, keep_waiting_notified, now, blocked,
           pending, outcome, ret, exit_status, log, left_running, sigterms,
           kill_errors, kill_calls, returns, cancelled_at_call, dead_found,
           warned, scanned, seen_alive, handlers_installed, last_read,
           BindVars, EntryVars >>

EmptyDict == [p \in {} |-> "S"]

NoLog == [error |-> 0, interrupted |-> 0, waiting |-> 0, left |-> 0]

Unset == << "unset" >>

ExitCodeArgs == { << "0" >>, << "3" >>, << "-", "1", "5" >> }

\* The inputs of the runs of Spec, << sys.argv[1], PYREX_CLEANUP_EXIT_WAIT >>:
\* every exit code with the schedules "0", "1,2,3", "x", "1,x" and "", and one
\* exit code each with the default, "-1,-1" and "21".
RunInputs ==
    ( ExitCodeArgs \X { << "0" >>,
                        << "1", ",", "2", ",", "3" >>,
                        << "x" >>,
                        << "1", ",", "x" >>,
                        << >> } )
    \cup { << << "0" >>, Unset >>,
           << << "3" >>, << "2", "1" >> >>,
           << << "-", "1", "5" >>, << "-", "1", ",", "-", "1" >> >> }

\* The caller masks the interrupt signals before the reaper starts.
InitiallyBlocked == TRUE

InitState ==
    /\ pc = "main"
    /\ exit_wait_times = << >>
    /\ phase = 0
    /\ sig = "None"
    /\ max_wait = [n |-> 0, d |-> 1]
    /\ start_time = 0
    /\ killed_processes = {}
    /\ sleep_time = SHORT_SLEEP
    /\ stat_files = << >>
    /\ still_running = EmptyDict
    /\ signals_enabled = FALSE
    /\ keep_waiting = TRUE
    /\ keep_waiting_notified = FALSE
    /\ now = 0
    /\ blocked = InitiallyBlocked
    /\ pending = FALSE
    /\ outcome = "running"
    /\ ret = 0
    /\ exit_status = 0
    /\ log = NoLog
    /\ left_running = EmptyDict
    /\ sigterms = [p \in Pids |-> 0]
    /\ kill_errors = [p \in Pids |-> 0]
    /\ kill_calls = {}
    /\ returns = << >>
    /\ cancelled_at_call = FALSE
    /\ dead_found = FALSE
    /\ warned = FALSE
    /\ scanned = FALSE
    /\ seen_alive = {}
    /\ handlers_installed = FALSE
    /\ last_read = "none"

\* pyrex before prep_container reaches its binds, with none configured.
BindsIdle ==
    /\ binds = {}
    /\ existing = {}
    /\ bind_todo = {}
    /\ engine_args = << << "run" >> >>
    /\ pyrex_pc = "binds"
    /\ pyrex_outcome = "running"
    /\ pyrex_status = 0

\* The entry script before its startup loop, with an empty startup.d.
EntryIdle ==
    /\ skip_startup_env = Unset
    /\ startup_d = << >>
    /\ last_cap = 1
    /\ listing_pos = 0
    /\ startup_ran = << >>
    /\ entry_pc = "startup"
    /\ entry_status = 0
    /\ user_command = FALSE

Init ==
    /\ \E run \in RunInputs :
        /\ argv1 = run[1]
        /\ exit_wait_env = run[2]
    /\ InitState
    /\ BindsIdle
    /\ EntryIdle

\* ------------------------------------------------------------------ helpers

\* A counter of the model, counted to 2.
Bump(k) == IF k < 2 THEN k + 1 ELSE k

Logged(what) == [log EXCEPT ![what] = Bump(@)]

\* The pids of S in ascending order: the order in which /proc lists them.
SortedSeq(S) ==
    CHOOSE s \in [1..Cardinality(S) -> S] :
        \A i, j \in 1..Cardinality(S) : i < j => s[i] < s[j]

\* still_running[pid] = description
DictPut(dict, pid, state) ==
    [q \in DOMAIN dict \cup {pid} |-> IF q = pid THEN state ELSE dict[q]]

\* Mutant: the state is not looked at.
IsCandidate_AnyState(pid, state) == pid # my_pid /\ pid # 1

\* Mutant: pid 1 is not excluded.
IsCandidate_WithInit(pid, state) ==
    state \notin ALREADY_DEAD_STATES /\ pid # my_pid

\* not state in ALREADY_DEAD_STATES and pid != my_pid and pid != 1
IsCandidate(pid, state) ==
    state \notin ALREADY_DEAD_STATES /\ pid # my_pid /\ pid # 1

\* Mutant: the phase without a signal kills as well.
ShouldKill_AnyPhase(pid, killed, s) == pid \notin killed

\* Mutant: killed_processes is not consulted.
ShouldKill_Again(pid, killed, s) == s # "None"

\* Mutant: only the first process of a phase is signaled.
ShouldKill_OnlyFirst(pid, killed, s) == killed = {} /\ s # "None"

\* not pid in killed_processes and sig is not None
ShouldKill(pid, killed, s) == pid \notin killed /\ s # "None"

\* Mutant: the loop tests its exits before it scans.
LoopEntry_CheckFirst == "check"

\* while True: the body starts with the scan, the exits are tested after it.
LoopEntry == "scan"

\* wait_for_processes(s, w): the statements before the loop.
CallWait(s, w) ==
    /\ sig' = s
    /\ max_wait' = w
    /\ start_time' = now
    /\ killed_processes' = {}
    /\ sleep_time' = SHORT_SLEEP
    /\ stat_files' = << >>
    /\ still_running' = EmptyDict
    /\ cancelled_at_call' = ~keep_waiting
    /\ warned' = FALSE
    /\ scanned' = FALSE
    /\ seen_alive' = {}
    /\ pc' = LoopEntry

\* main() returns v, and sys.exit() ends the process with it.
MainReturns(v) ==
    /\ outcome' = "returned"
    /\ ret' = v
    /\ exit_status' = ExitStatus(v)
    /\ pc' = "done"

\* An exception nothing catches: the interpreter prints the traceback and the
\* process ends with status 1.
Raises ==
    /\ outcome' = "raised"
    /\ exit_status' = 1
    /\ pc' = "done"
    /\ UNCHANGED ret

LoopVars == << sig, max_wait, start_time, killed_processes, sleep_time,
               stat_files, still_running >>
SignalVars == << signals_enabled, keep_waiting, keep_waiting_notified, blocked,
                 pending, handlers_installed >>
KillVars == << sigterms, kill_errors, kill_calls >>
InputVars == << argv1, exit_wait_env >>
CallHistory == << cancelled_at_call, warned, scanned, seen_alive >>
HistoryVars == << returns, cancelled_at_call, dead_found, warned, scanned,
                 seen_alive, last_read >>

\* ------------------------------------------------------------------ actions

\* main() up to the first call of wait_for_processes.
Main ==
    /\ pc = "main"
    /\ LET exit_wait == IF exit_wait_env = Unset THEN DEFAULT_WAIT_TIME
                        ELSE exit_wait_env
           vals == ParseWaitTimes(exit_wait)
           times == NormalizeWaitTimes(vals)
       IN  IF \E i \in 1..Len(vals) : ~vals[i].ok
           THEN \* except ValueError: logging.error(...); return 1
                /\ log' = Logged("error")
                /\ MainReturns(1)
                /\ UNCHANGED << exit_wait_times, phase, LoopVars, CallHistory >>
           ELSE IF Len(times) # EXIT_WAIT_PHASES
           THEN \* ','.join(exit_wait_times) on floats raises TypeError
                \* before logging.error is called
                /\ exit_wait_times' = times
                /\ Raises
                /\ UNCHANGED << log, phase, LoopVars, CallHistory >>
           ELSE /\ exit_wait_times' = times
                /\ phase' = 1
                /\ CallWait("None", times[1])
                /\ UNCHANGED << log, outcome, ret, exit_status >>
    /\ UNCHANGED << InputVars, BindVars, EntryVars,
                    SignalVars, KillVars, now, left_running, returns,
                    dead_found, last_read >>

\* glob.glob("/proc/*/stat"): the reaper and pid 1 are always listed.
ScanList ==
    /\ pc = "scan"
    /\ \E listed \in SUBSET Pids, late \in 0..MaxLate :
        /\ {1, my_pid} \subseteq listed
        /\ now + late <= MaxTime
        /\ now' = now + late
        /\ stat_files' = SortedSeq(listed)
    /\ still_running' = EmptyDict
    /\ dead_found' = FALSE
    /\ seen_alive' = {}
    /\ last_read' = "none"
    /\ pc' = "read"
    /\ UNCHANGED << InputVars, BindVars, EntryVars,
                    exit_wait_times, phase, sig, max_wait, start_time,
                    killed_processes, sleep_time, SignalVars, KillVars, outcome,
                    ret, exit_status, log, left_running, returns,
                    cancelled_at_call, warned, scanned >>

\* What the files of one process give: the stat file cannot be opened or is
\* empty ("skip"), or it gives a state and the cmdline file is readable text,
\* unreadable (IOError) or not valid UTF-8.
ReadResults(p) ==
    { [kind |-> "skip", state |-> "S", cmdline |-> "text"] }
    \cup { [kind |-> "stat", state |-> s, cmdline |-> c] :
             s \in IF p \in {1, my_pid} THEN LiveStates ELSE StateCodes,
             c \in IF p \in {1, my_pid} THEN {"text"}
                   ELSE {"text", "IOError", "undecodable"} }

\* Mutant: an unreadable stat file ends the scan with its exception.
ReadFails_AnyError(r) ==
    r.kind = "skip" \/ (r.kind = "stat" /\ r.cmdline = "undecodable")

\* The reads whose exception neither "except IOError" catches.
ReadFails(r) == r.kind = "stat" /\ r.cmdline = "undecodable"

\* Mutant: the pid is recorded before os.kill is called.
KilledAfterError_Recorded(killed, pid) == killed \cup {pid}

\* os.kill raised: killed_processes.add(pid) was not reached.
KilledAfterError(killed, pid) == killed

\* One iteration of "for p in stat_files".
ReadStat ==
    /\ pc = "read"
    /\ stat_files # << >>
    /\ LET p == Head(stat_files)
           rest == Tail(stat_files)
           next == IF rest = << >> THEN "check" ELSE "read"
       IN  \E r \in ReadResults(p) :
            IF ReadFails(r)
            THEN \* decode('utf-8') raises UnicodeDecodeError, no IOError
                 /\ Raises
                 /\ last_read' = r.kind
                 /\ UNCHANGED << stat_files, still_running, killed_processes,
                                 KillVars, dead_found, scanned, seen_alive >>
            ELSE /\ stat_files' = rest
                 /\ pc' = next
                 /\ dead_found' = (dead_found \/ (r.kind = "stat"
                                                  /\ r.state \in ALREADY_DEAD_STATES))
                 /\ scanned' = (scanned \/ rest = << >>)
                 /\ seen_alive' = IF r.kind = "stat" /\ IsCandidate(p, r.state)
                                  THEN seen_alive \cup {p} ELSE seen_alive
                 /\ UNCHANGED << outcome, ret, exit_status >>
                 /\ IF r.kind = "stat" /\ IsCandidate(p, r.state)
                    THEN IF ShouldKill(p, killed_processes, sig)
                         THEN \/ \* os.kill(pid, sig) returns
                                 /\ kill_calls' = kill_calls \cup {<< p, r.state >>}
                                 /\ sigterms' = [sigterms EXCEPT ![p] = Bump(@)]
                                 /\ killed_processes' = killed_processes \cup {p}
                                 /\ still_running' = DictPut(still_running, p, r.state)
                                 /\ last_read' = "killed"
                                 /\ UNCHANGED kill_errors
                              \/ \* os.kill raises OSError: except IOError: pass
                                 /\ kill_errors[p] < MaxKillErrors
                                 /\ kill_calls' = kill_calls \cup {<< p, r.state >>}
                                 /\ kill_errors' = [kill_errors EXCEPT ![p] = @ + 1]
                                 /\ killed_processes' =
                                        KilledAfterError(killed_processes, p)
                                 /\ last_read' = "kill_failed"
                                 /\ UNCHANGED << sigterms, still_running >>
                         ELSE /\ still_running' = DictPut(still_running, p, r.state)
                              /\ last_read' = r.kind
                              /\ UNCHANGED << killed_processes, KillVars >>
                    ELSE /\ last_read' = r.kind
                         /\ UNCHANGED << still_running, killed_processes, KillVars >>
    /\ UNCHANGED << InputVars, BindVars, EntryVars,
                    exit_wait_times, phase, sig, max_wait, start_time,
                    sleep_time, SignalVars, now, log, left_running, returns,
                    cancelled_at_call, warned >>

\* Mutant: keep_waiting is not checked.
ReturnReason_NoCancel(running, t, start, w, keep) ==
    IF DOMAIN running = {} THEN "empty"
    ELSE IF TimedOut(t, start, w) THEN "timeout"
    ELSE "wait"

\* Mutant: the time waited is not checked.
ReturnReason_NoTimeout(running, t, start, w, keep) ==
    IF DOMAIN running = {} THEN "empty"
    ELSE IF ~keep THEN "cancel"
    ELSE "wait"

\* The three returns of the loop, in the order of the code; "wait" when the
\* loop goes on.
ReturnReason(running, t, start, w, keep) ==
    IF DOMAIN running = {} THEN "empty"
    ELSE IF TimedOut(t, start, w) THEN "timeout"
    ELSE IF ~keep THEN "cancel"
    ELSE "wait"

\* Mutant: keep_waiting_notified is not consulted.
ShouldNotify_Always(why, notified) == why = "cancel"

\* Mutant: a timeout is notified as an interruption as well.
ShouldNotify_OnTimeout(why, notified) ==
    why \in {"cancel", "timeout"} /\ ~notified

\* if not keep_waiting: if not keep_waiting_notified: the warning is due.
ShouldNotify(why, notified) == why = "cancel" /\ ~notified

Check ==
    /\ pc = "check"
    /\ LET why == ReturnReason(still_running, now, start_time, max_wait, keep_waiting)
       IN  /\ pc' = IF why = "wait" THEN "enable" ELSE "returned"
           /\ returns' = IF why = "wait" THEN returns ELSE Append(returns, why)
           /\ IF ShouldNotify(why, keep_waiting_notified)
              THEN /\ log' = Logged("interrupted")
                   /\ keep_waiting_notified' = TRUE
              ELSE UNCHANGED << log, keep_waiting_notified >>
    /\ UNCHANGED << InputVars, BindVars, EntryVars,
                    exit_wait_times, phase, LoopVars, signals_enabled,
                    keep_waiting, blocked, pending, KillVars, now, outcome, ret,
                    exit_status, left_running, cancelled_at_call, dead_found,
                    warned, scanned, seen_alive, handlers_installed >>
    /\ last_read' = "none"

\* Mutant: the time is measured from the start of the run.
EnableDue_FromRunStart(enabled, t, start) ==
    ~enabled /\ After(t, 0, SIGNAL_ENABLE_WAIT_TIME)

\* Mutant: the time waited is not looked at.
EnableDue_AtOnce(enabled, t, start) == ~enabled

\* Mutant: signals_enabled is not looked at.
EnableDue_Repeat(enabled, t, start) == After(t, start, SIGNAL_ENABLE_WAIT_TIME)

\* not signals_enabled and time.monotonic() > start_time + SIGNAL_ENABLE_WAIT_TIME
EnableDue(enabled, t, start) ==
    ~enabled /\ After(t, start, SIGNAL_ENABLE_WAIT_TIME)

\* Mutant: a signal pending at the unmasking is discarded.
PendingAfterUnmask_Dropped(p) == FALSE

\* The handlers are installed before the unmasking: a signal that was pending
\* while masked is still pending, now for the handler.
PendingAfterUnmask(p) == p

\* if not signals_enabled and ...: the warning, the handlers, the unmasking.
EnableSignals ==
    /\ pc = "enable"
    /\ IF EnableDue(signals_enabled, now, start_time)
       THEN /\ log' = Logged("waiting")
            /\ warned' = TRUE
            /\ handlers_installed' = TRUE
            /\ blocked' = FALSE
            /\ pending' = PendingAfterUnmask(pending)
            /\ pc' = "enabled"
       ELSE /\ pc' = "sleep"
            /\ UNCHANGED << log, warned, handlers_installed, blocked, pending >>
    /\ UNCHANGED << InputVars, BindVars, EntryVars,
                    exit_wait_times, phase, LoopVars, signals_enabled,
                    keep_waiting, keep_waiting_notified, KillVars, now,
                    outcome, ret, exit_status, left_running, returns,
                    cancelled_at_call, dead_found, scanned, seen_alive,
                    last_read >>

\* signals_enabled = True
SetSignalsEnabled ==
    /\ pc = "enabled"
    /\ signals_enabled' = TRUE
    /\ pc' = "sleep"
    /\ UNCHANGED << InputVars, BindVars, EntryVars,
                    exit_wait_times, phase, LoopVars, keep_waiting,
                    keep_waiting_notified, blocked, pending, handlers_installed,
                    KillVars, now, outcome, ret, exit_status, log, left_running,
                    HistoryVars >>

\* Mutant: the 2 seconds are counted from the start of the run.
NextSleepTime_FromRunStart(st, t, start) ==
    IF After(t, 0, THROTTLE_WAIT_TIME) THEN LONG_SLEEP ELSE st

\* if time.monotonic() > start_time + 2: sleep_time = 0.5
NextSleepTime(st, t, start) ==
    IF After(t, start, THROTTLE_WAIT_TIME) THEN LONG_SLEEP ELSE st

\* The throttling of sleep_time and time.sleep(sleep_time).
Sleep ==
    /\ pc = "sleep"
    /\ sleep_time' = NextSleepTime(sleep_time, now, start_time)
    /\ \E late \in 0..MaxLate :
        /\ now + SleepTicks(sleep_time') + late <= MaxTime
        /\ now' = now + SleepTicks(sleep_time') + late
    /\ pc' = "scan"
    /\ UNCHANGED << InputVars, BindVars, EntryVars,
                    exit_wait_times, phase, sig, max_wait, start_time,
                    killed_processes, stat_files, still_running, SignalVars,
                    KillVars, outcome, ret, exit_status, log, left_running,
                    HistoryVars >>

\* Mutant: the second call is given no signal.
TerminateSignal_None == "None"

\* signal.SIGTERM, the sig of the second call.
TerminateSignal == "SIGTERM"

\* Mutant: the second call is made whatever the first returned.
EntersTerminate_Always(running) == TRUE

\* if still_running: after the first call.
EntersTerminate(running) == DOMAIN running # {}

\* main(): the second call of wait_for_processes.
MainTerminate ==
    /\ pc = "returned"
    /\ phase = 1
    /\ EntersTerminate(still_running)
    /\ phase' = 2
    /\ CallWait(TerminateSignal, exit_wait_times[2])
    /\ UNCHANGED << InputVars, BindVars, EntryVars,
                    exit_wait_times, SignalVars, KillVars, now, outcome,
                    ret, exit_status, log, left_running, returns, dead_found,
                    last_read >>

\* Mutant: processes left running turn the exit code into a failure.
ExitValue_FailIfLeft(arg, running) == IF DOMAIN running # {} THEN 1 ELSE int(arg)

\* return int(sys.argv[1]), whatever is still running.
ExitValue(arg, running) == int(arg)

\* main(): the warning about the processes left, and the return.
MainExit ==
    /\ pc = "returned"
    /\ phase = 2 \/ ~EntersTerminate(still_running)
    /\ IF DOMAIN still_running # {}
       THEN /\ log' = Logged("left")
            /\ left_running' = still_running
       ELSE UNCHANGED << log, left_running >>
    /\ MainReturns(ExitValue(argv1, still_running))
    /\ UNCHANGED << InputVars, BindVars, EntryVars,
                    exit_wait_times, phase, LoopVars, SignalVars,
                    KillVars, now, HistoryVars >>

\* Mutant: the handler does the notification itself.
stop_process_waiting_Notifies ==
    /\ outcome = "running"
    /\ pending
    /\ ~blocked
    /\ handlers_installed
    /\ keep_waiting' = FALSE
    /\ pending' = FALSE
    /\ log' = IF keep_waiting_notified THEN log ELSE Logged("interrupted")
    /\ keep_waiting_notified' = TRUE
    /\ UNCHANGED << InputVars, BindVars, EntryVars,
                    pc, exit_wait_times, phase, LoopVars,
                    signals_enabled, blocked, handlers_installed, KillVars, now,
                    outcome, ret, exit_status, left_running, HistoryVars >>

\* stop_process_waiting(signum, frame), run for a pending unmasked signal.
stop_process_waiting ==
    /\ outcome = "running"
    /\ pending
    /\ ~blocked
    /\ handlers_installed
    /\ keep_waiting' = FALSE
    /\ pending' = FALSE
    /\ UNCHANGED << InputVars, BindVars, EntryVars,
                    pc, exit_wait_times, phase, LoopVars,
                    signals_enabled, keep_waiting_notified, blocked,
                    handlers_installed, KillVars, now, outcome, ret, exit_status,
                    log, left_running, HistoryVars >>

\* SIGINT, SIGQUIT or SIGTERM is sent to the reaper.
SignalSent ==
    /\ outcome = "running"
    /\ ~pending
    /\ pending' = TRUE
    /\ UNCHANGED << InputVars, BindVars, EntryVars,
                    pc, exit_wait_times, phase, LoopVars,
                    signals_enabled, keep_waiting, keep_waiting_notified, blocked,
                    handlers_installed, KillVars, now, outcome, ret, exit_status,
                    log, left_running, HistoryVars >>

Next ==
    \/ Main
    \/ ScanList
    \/ ReadStat
    \/ Check
    \/ EnableSignals
    \/ SetSignalsEnabled
    \/ Sleep
    \/ MainTerminate
    \/ MainExit
    \/ stop_process_waiting
    \/ SignalSent

Spec == Init /\ [][Next]_vars

\* ------------------------------------------------- the schedule parser alone

ParseAlphabet == {"-", ",", ".", "0", "1", "2", "3", "x"}

ParseStrings == UNION { [1..k -> ParseAlphabet] : k \in 0..MaxLen }

InitParse ==
    /\ argv1 = << "3" >>
    /\ exit_wait_env \in ParseStrings \cup {Unset}
    /\ InitState
    /\ BindsIdle
    /\ EntryIdle

NextParse == Main

SpecParse == InitParse /\ [][NextParse]_vars

\* ------------------------------------- runs whose phases both have an end

\* << sys.argv[1], PYREX_CLEANUP_EXIT_WAIT >>: the schedules "0", "11,0" and
\* "12".
LiveInputs ==
    { << << "0" >>, << "0" >> >>,
      << << "3" >>, << "1", "1", ",", "0" >> >>,
      << << "3" >>, << "1", "2" >> >> }

InitLive ==
    /\ \E run \in LiveInputs :
        /\ argv1 = run[1]
        /\ exit_wait_env = run[2]
    /\ InitState
    /\ BindsIdle
    /\ EntryIdle

\* A step of the single thread of the program.
ProgramStep ==
    \/ Main
    \/ ScanList
    \/ ReadStat
    \/ Check
    \/ EnableSignals
    \/ SetSignalsEnabled
    \/ Sleep
    \/ MainTerminate
    \/ MainExit

\* The interpreter runs the program on, and the clock read after a sleep is
\* again and again later than the one read before it.
Fairness ==
    /\ WF_vars(ProgramStep)
    /\ SF_vars(Sleep /\ now' > now)

SpecLive == InitLive /\ [][Next]_vars /\ Fairness

\* -------------------------------------- runs that wait forever for a signal

\* << sys.argv[1], PYREX_CLEANUP_EXIT_WAIT >>: the default schedule, which
\* waits forever in the Terminate phase, and "-1,-1", which does in both.
SignalInputs ==
    { << << "0" >>, Unset >>,
      << << "-", "1", "5" >>, << "-", "1", ",", "-", "1" >> >> }

InitSignal ==
    /\ \E run \in SignalInputs :
        /\ argv1 = run[1]
        /\ exit_wait_env = run[2]
    /\ InitState
    /\ BindsIdle
    /\ EntryIdle

\* An unmasked pending signal whose handler is installed.
Deliverable == pending /\ ~blocked /\ handlers_installed

\* What /proc shows when one process hangs: pid 3 is listed by every scan,
\* and its stat file is read and gives a state that is not a dead one.
HungProcess ==
    /\ pc = "scan" => stat_files' = << 1, my_pid, 3 >>
    /\ (pc = "read" /\ outcome' = "running") =>
         /\ last_read' # "skip"
         /\ Head(stat_files) = 3 => 3 \in seen_alive'

\* The interpreter runs the handler of a deliverable signal before the next
\* statement of the program.
ProgramTurn == ~Deliverable /\ ProgramStep /\ HungProcess

NextSignal ==
    \/ ProgramTurn
    \/ stop_process_waiting
    \/ SignalSent

\* The program is not starved by a stream of signals, and the clock read
\* after a sleep is again and again later than the one read before it.
FairnessSignal ==
    /\ SF_vars(ProgramTurn)
    /\ WF_vars(stop_process_waiting)
    /\ SF_vars(ProgramTurn /\ pc = "sleep" /\ now' > now)

SpecSignal == InitSignal /\ [][NextSignal]_vars /\ FairnessSignal

\* ------------------------------------- pyrex.py: the binds of prep_container

\* A bind is a string of words and commas: a source path, then options.
OPTIONAL == << "optional" >>
READONLY == << "readonly" >>

Paths == { << "/a" >>, << "/b" >> }

\* What follows the path in the binds of InitBinds: "", ",optional",
\* ",readonly", ",optional,readonly", ",bad-option", ",optional,bad-option",
\* ",__doc__", ",__class__" and ",".
OptionLists ==
    { << >>,
      << ",", "optional" >>,
      << ",", "readonly" >>,
      << ",", "optional", ",", "readonly" >>,
      << ",", "bad-option" >>,
      << ",", "optional", ",", "bad-option" >>,
      << ",", "__doc__" >>,
      << ",", "__class__" >>,
      << "," >> }

BindStrings == { path \o opts : path \in Paths, opts \in OptionLists }

Range(q) == { q[i] : i \in 1..Len(q) }

\* The attributes a types.SimpleNamespace has without having been given
\* them, of the names in OptionLists.
InheritedAttributes == { << "__doc__" >>, << "__class__" >> }

\* The attributes whose assignment of True raises TypeError.
TypeCheckedAttributes == { << "__class__" >> }

\* hasattr(options, opt)
hasattr(options, opt) == opt \in DOMAIN options \cup InheritedAttributes

\* setattr(options, opt, True), where it does not raise
setattr(options, opt, value) ==
    [o \in DOMAIN options \cup {opt} |-> IF o = opt THEN value ELSE options[o]]

\* for opt in s[1:]: acc is << options, bad_options >> and whether setattr
\* raised, which ends the loop.
RECURSIVE SetOptions(_, _)
SetOptions(opts, acc) ==
    IF opts = << >> \/ acc.raised THEN acc
    ELSE LET opt == Head(opts)
         IN  SetOptions(Tail(opts),
                IF hasattr(acc.options, opt)
                THEN IF opt \in TypeCheckedAttributes
                     THEN [acc EXCEPT !.raised = TRUE]
                     ELSE [acc EXCEPT !.options = setattr(@, opt, TRUE)]
                ELSE [acc EXCEPT !.bad_options = Append(@, opt)])

parse_bind_options(bind) ==
    LET start == [options |-> [o \in {OPTIONAL, READONLY} |-> FALSE],
                  bad_options |-> << >>,
                  raised |-> FALSE]
        s == split(bind)
        r == IF "," \in Range(bind) THEN SetOptions(Tail(s), start) ELSE start
    IN  [bind |-> IF "," \in Range(bind) THEN s[1] ELSE bind,
         options |-> r.options,
         bad_options |-> r.bad_options,
         raised |-> r.raised]

\* ["--mount", "type=bind,src={b},dst={b}{ro}"]
MountArgs(b, readonly) ==
    << << "--mount" >>,
       << "type=bind,src=" >> \o b \o << ",dst=" >> \o b
           \o << IF readonly THEN ",readonly" ELSE "" >> >>

\* return []
ReturnEmpty ==
    /\ engine_args' = << >>
    /\ pyrex_pc' = "run"
    /\ UNCHANGED << pyrex_outcome, pyrex_status >>

\* One iteration of "for b in set(binds)", in the order the set gives.
BindLoop ==
    /\ pyrex_pc = "binds"
    /\ \E b0 \in bind_todo :
        LET r == parse_bind_options(b0)
            b == r.bind
        IN  /\ bind_todo' = bind_todo \ {b0}
            /\ IF r.raised
               THEN \* setattr raises TypeError, which nothing catches
                    /\ pyrex_pc' = "done"
                    /\ pyrex_outcome' = "raised"
                    /\ pyrex_status' = 1
                    /\ UNCHANGED engine_args
               ELSE IF r.bad_options # << >>
               THEN ReturnEmpty
               ELSE IF b \notin existing
               THEN IF r.options[OPTIONAL]
                    THEN UNCHANGED << engine_args, pyrex_pc, pyrex_outcome,
                                      pyrex_status >>
                    ELSE ReturnEmpty
               ELSE /\ engine_args' = engine_args \o MountArgs(b, r.options[READONLY])
                    /\ UNCHANGED << pyrex_pc, pyrex_outcome, pyrex_status >>
    /\ UNCHANGED << binds, existing, InputVars, pc, exit_wait_times, phase,
                    LoopVars, SignalVars, KillVars, now, outcome, ret,
                    exit_status, log, left_running, HistoryVars, EntryVars >>

\* The loop is over: the rest of prep_container, which returns engine_args.
PrepReturn ==
    /\ pyrex_pc = "binds"
    /\ bind_todo = {}
    /\ engine_args' = engine_args \o << << "--" >>, << "runid" >>, << "command" >> >>
    /\ pyrex_pc' = "run"
    /\ UNCHANGED << binds, existing, bind_todo, pyrex_outcome, pyrex_status,
                    InputVars, pc, exit_wait_times, phase, LoopVars, SignalVars,
                    KillVars, now, outcome, ret, exit_status, log, left_running,
                    HistoryVars, EntryVars >>

\* run(args) after prep_container returned: sys.exit(1) or os.execvp.
run ==
    /\ pyrex_pc = "run"
    /\ IF engine_args = << >>
       THEN /\ pyrex_outcome' = "exited"
            /\ pyrex_status' = 1
       ELSE /\ pyrex_outcome' = "exec"
            /\ UNCHANGED pyrex_status
    /\ pyrex_pc' = "done"
    /\ UNCHANGED << binds, existing, bind_todo, engine_args, InputVars, pc,
                    exit_wait_times, phase, LoopVars, SignalVars, KillVars, now,
                    outcome, ret, exit_status, log, left_running, HistoryVars,
                    EntryVars >>

\* Up to MaxBinds binds, and any of the paths existing.
InitBinds ==
    /\ binds \in { B \in SUBSET BindStrings : Cardinality(B) <= MaxBinds }
    /\ existing \in SUBSET Paths
    /\ bind_todo = binds
    /\ engine_args = << << "run" >> >>
    /\ pyrex_pc = "binds"
    /\ pyrex_outcome = "running"
    /\ pyrex_status = 0
    /\ argv1 = << "0" >>
    /\ exit_wait_env = Unset
    /\ InitState
    /\ EntryIdle

NextBinds ==
    \/ BindLoop
    \/ PrepReturn
    \/ run

SpecBinds == InitBinds /\ [][NextBinds]_vars

\* ------------------------------- entry.py: the startup executables of main

\* An entry of /usr/libexec/pyrex/startup.d: whether it is a file that may be
\* executed, and the returncode subprocess sees when it is (negative when a
\* signal killed it).
StartupEntries ==
    { [runnable |-> TRUE, returncode |-> 0],
      [runnable |-> TRUE, returncode |-> 3],
      [runnable |-> TRUE, returncode |-> -9],
      [runnable |-> FALSE, returncode |-> 0] }

\* os.listdir(): any entries in any order.
Listings == UNION { [1..k -> StartupEntries] : k \in 0..MaxFiles }

\* PYREX_SKIP_STARTUP: not set, "0", "1" or "".
SkipValues == { Unset, << "0" >>, << "1" >>, << >> }

\* What /proc/sys/kernel/cap_last_cap holds.
LastCaps == {0, 1}

\* os.environ.get("PYREX_SKIP_STARTUP", "0") == "0"
StartupWanted(env) == (IF env = Unset THEN << "0" >> ELSE env) = << "0" >>

\* Mutant: a failing startup executable is ignored.
CheckCallFails_Never(returncode) == FALSE

\* subprocess.check_call raises CalledProcessError
CheckCallFails(returncode) == returncode # 0

\* One iteration of "for exe in os.listdir(...)".
StartupLoop ==
    /\ entry_pc = "startup"
    /\ StartupWanted(skip_startup_env)
    /\ listing_pos < Len(startup_d)
    /\ LET i == listing_pos + 1
           exe == startup_d[i]
       IN  /\ listing_pos' = i
           /\ IF exe.runnable
              THEN /\ startup_ran' = Append(startup_ran, i)
                   /\ IF CheckCallFails(exe.returncode)
                      THEN \* sys.exit(e.returncode)
                           /\ entry_status' = ExitStatus(exe.returncode)
                           /\ entry_pc' = "done"
                      ELSE UNCHANGED << entry_status, entry_pc >>
              ELSE UNCHANGED << startup_ran, entry_status, entry_pc >>
    /\ UNCHANGED << skip_startup_env, startup_d, last_cap, user_command,
                    InputVars, pc, exit_wait_times, phase, LoopVars, SignalVars,
                    KillVars, now, outcome, ret, exit_status, log, left_running,
                    HistoryVars, BindVars >>

\* The startup executables are skipped, or the loop is over.
StartupOver ==
    /\ entry_pc = "startup"
    /\ ~StartupWanted(skip_startup_env) \/ listing_pos = Len(startup_d)
    /\ entry_pc' = "exec"
    /\ UNCHANGED << skip_startup_env, startup_d, last_cap, listing_pos,
                    startup_ran, entry_status, user_command, InputVars, pc,
                    exit_wait_times, phase, LoopVars, SignalVars, KillVars, now,
                    outcome, ret, exit_status, log, left_running, HistoryVars,
                    BindVars >>

\* The capabilities are read and setpriv is exec'ed with the user's command.
ExecCommand ==
    /\ entry_pc = "exec"
    /\ IF last_cap = 0
       THEN \* sys.exit(-1)
            /\ entry_status' = ExitStatus(-1)
            /\ UNCHANGED user_command
       ELSE /\ user_command' = TRUE
            /\ UNCHANGED entry_status
    /\ entry_pc' = "done"
    /\ UNCHANGED << skip_startup_env, startup_d, last_cap, listing_pos,
                    startup_ran, InputVars, pc, exit_wait_times, phase,
                    LoopVars, SignalVars, KillVars, now, outcome, ret,
                    exit_status, log, left_running, HistoryVars, BindVars >>

InitEntry ==
    /\ skip_startup_env \in SkipValues
    /\ startup_d \in Listings
    /\ last_cap \in LastCaps
    /\ listing_pos = 0
    /\ startup_ran = << >>
    /\ entry_pc = "startup"
    /\ entry_status = 0
    /\ user_command = FALSE
    /\ argv1 = << "0" >>
    /\ exit_wait_env = Unset
    /\ InitState
    /\ BindsIdle

NextEntry ==
    \/ StartupLoop
    \/ StartupOver
    \/ ExecCommand

SpecEntry == InitEntry /\ [][NextEntry]_vars

\* ------------------------------------------------------------------- claims

Last(q) == q[Len(q)]

RECURSIVE GCD(_, _)
GCD(a, b) == IF b = 0 THEN a ELSE GCD(b, a % b)

\* a = b as rationals: their lowest terms are the same.
LowestTerms(a) ==
    LET g == GCD(IF a.n < 0 THEN 0 - a.n ELSE a.n, a.d)
    IN  [n |-> a.n \div g, d |-> a.d \div g]

RatEq(a, b) == LowestTerms(a) = LowestTerms(b)

NoKills ==
    /\ kill_calls = {}
    /\ \A p \in Pids : sigterms[p] = 0 /\ kill_errors[p] = 0

Waiting == pc \in {"enable", "enabled", "sleep"}

\* C1: when main() returns after a schedule of two phases, the value it
\* returns is the integer of argv[1], whatever happened in the phases.
C1_ExitCodeUnchanged ==
    (outcome = "returned" /\ phase >= 1) =>
        /\ (argv1 = << "0" >>) => ret = 0
        /\ (argv1 = << "3" >>) => ret = 3
        /\ (argv1 = << "-", "1", "5" >>) => ret = 0 - 15

C1_Witness ==
    /\ outcome = "returned"
    /\ argv1 = << "-", "1", "5" >>
    /\ phase = 2
    /\ DOMAIN left_running # {}
    /\ Last(returns) = "cancel"

\* C2: nothing is killed, and os.kill is not called, before the NaturalExit
\* call has returned; the Terminate call starts only from the return of the
\* NaturalExit call.
C2_NoSignalBeforeTerminate ==
    /\ [](phase <= 1 => NoKills)
    /\ [][(phase' = 2 /\ phase # 2)
            => (phase = 1 /\ pc = "returned" /\ Len(returns) = 1)]_vars

C2_Witness ==
    /\ phase = 2
    /\ returns[1] = "timeout"
    /\ sigterms[3] = 1

\* C3 as stated: at the end of the run every pid that a Terminate scan saw
\* alive (os.kill was called for it) has been sent exactly one SIGTERM.
C3_Original ==
    outcome = "returned" => \A c \in kill_calls : sigterms[c[1]] = 1

\* C3 amended: no pid is sent more than one SIGTERM in the run; a pid that a
\* Terminate scan counts as still running has been sent exactly one, in
\* however many scans; killed_processes only grows within a phase.
C3_SignalledOnce ==
    /\ [](\A p \in Pids :
            /\ sigterms[p] <= 1
            /\ (phase = 2 /\ p \in DOMAIN still_running)
                 => (sigterms[p] = 1 /\ p \in killed_processes))
    /\ [][phase' = phase => killed_processes \subseteq killed_processes']_vars

C3_Witness ==
    /\ phase = 2
    /\ pc = "check"
    /\ sleep_time = LONG_SLEEP
    /\ 3 \in DOMAIN still_running
    /\ sigterms[3] = 1

\* C4 as stated: once the NaturalExit call has returned through the
\* cancellation branch, the Terminate phase is not entered and os.kill is
\* never called.
C4_Original ==
    (returns # << >> /\ returns[1] = "cancel") => (phase = 1 /\ NoKills)

\* C4 amended: after a cancellation in NaturalExit the Terminate call is still
\* made with SIGTERM; it never waits (one scan, no sleep), every survivor of
\* its scan has been sent SIGTERM, and what it returns is what is reported as
\* left running.
C4_CancelStillTerminates ==
    /\ []((returns # << >> /\ returns[1] = "cancel" /\ phase = 2) =>
            /\ sig = "SIGTERM"
            /\ ~Waiting
            /\ \A p \in DOMAIN still_running : sigterms[p] = 1
            /\ outcome = "returned" =>
                 /\ left_running = still_running
                 /\ log.left = IF DOMAIN still_running = {} THEN 0 ELSE 1)
    /\ [][(returns = << "cancel" >> /\ pc = "returned" /\ pc' # pc)
            => (phase' = 2 /\ pc' = "scan")]_vars

C4_Witness ==
    /\ outcome = "returned"
    /\ returns = << "cancel", "cancel" >>
    /\ sigterms[3] = 1
    /\ 3 \in DOMAIN left_running

\* C5: keep_waiting stays False once False; a check of the loop that finds it
\* False returns, whatever the duration and the survivors; a call started with
\* it False never reaches the wait (the unmasking and the sleep).
C5_CancelEndsWaiting ==
    /\ [][~keep_waiting => ~keep_waiting']_vars
    /\ [][(pc = "check" /\ ~keep_waiting /\ pc' # pc) => pc' = "returned"]_vars
    /\ [](cancelled_at_call => ~Waiting)

C5_Witness ==
    /\ pc = "returned"
    /\ cancelled_at_call
    /\ returns = << "cancel", "cancel" >>
    /\ max_wait.n < 0
    /\ DOMAIN still_running # {}

\* C6: no process is counted as still running, reported as left running, or
\* made the target of os.kill with a state of 'Z', 'X' or 'x'.
C6_DeadNeverCounted ==
    /\ \A p \in DOMAIN still_running : still_running[p] \notin {"Z", "X", "x"}
    /\ \A p \in DOMAIN left_running : left_running[p] \notin {"Z", "X", "x"}
    /\ \A c \in kill_calls : c[2] \notin {"Z", "X", "x"}

C6_Witness ==
    /\ phase = 2
    /\ pc = "returned"
    /\ dead_found
    /\ Last(returns) = "empty"

\* C7: the reaper's own pid and pid 1 are never counted as still running and
\* never the target of os.kill.
C7_SelfAndInitExcluded ==
    /\ DOMAIN still_running \cap {1, 2} = {}
    /\ DOMAIN left_running \cap {1, 2} = {}
    /\ \A c \in kill_calls : c[1] \notin {1, 2}
    /\ \A p \in {1, 2} : sigterms[p] = 0 /\ kill_errors[p] = 0

C7_Witness ==
    /\ phase = 2
    /\ pc = "check"
    /\ DOMAIN still_running = {3, 4}

\* The schedule string main() parses.
GivenExitWait == IF exit_wait_env = Unset THEN << "-", "1" >> ELSE exit_wait_env

Commas(s) == Cardinality({i \in 1..Len(s) : s[i] = ","})

AllNumeric(s) == \A i \in 1..Len(split(s)) : float(split(s)[i]).ok

Accepted == phase >= 1

Rejected == phase = 0 /\ pc = "done" /\ outcome # "running"

C9_BadScheduleAborts ==
    (pc # "main" /\ (~AllNumeric(GivenExitWait) \/ Commas(GivenExitWait) > 1)) =>
        /\ pc = "done"
        /\ exit_status = 1
        /\ phase = 0
        /\ now = 0
        /\ stat_files = << >>
        /\ returns = << >>
        /\ NoKills

C9_Witness ==
    /\ pc = "done"
    /\ exit_wait_env = << "1", ",", "2", ",", "3" >>
    /\ argv1 = << "0" >>
    /\ exit_status = 1

\* C10: no exception escapes main().
C10_NoExceptionEscapes == outcome # "raised"

\* The exit code handed to the reaper.
GivenExitCode ==
    CASE argv1 = << "0" >> -> 0
      [] argv1 = << "3" >> -> 3
      [] OTHER -> 0 - 15

CancelReturned == \E i \in 1..Len(returns) : returns[i] = "cancel"

\* C11: signals_enabled is False at the start; the step that warns, installs
\* the handlers and unmasks runs at most once in a run, in whichever phase;
\* once it has run signals_enabled is True for the rest of the run.
C11_EnabledOnce ==
    /\ pc = "main" => ~signals_enabled
    /\ log.waiting <= 1
    /\ signals_enabled => (log.waiting = 1 /\ ~blocked)
    /\ (log.waiting >= 1 /\ pc # "enabled") => signals_enabled

C11_Witness ==
    /\ phase = 2
    /\ returns = << "timeout" >>
    /\ pc = "sleep"
    /\ signals_enabled
    /\ log.waiting = 1

\* C12: while the signals are masked keep_waiting is True and no call has
\* returned through the cancellation branch, whatever signal is pending; the
\* unmasking happens only in a phase that has waited more than 10 seconds
\* with processes still running.
C12_MaskedUntilWaitedLong ==
    /\ [](blocked => (keep_waiting /\ ~CancelReturned /\ log.interrupted = 0))
    /\ [][(blocked /\ ~blocked')
            => (now - start_time > 10 * Hz /\ DOMAIN still_running # {})]_vars

C12_Witness ==
    /\ pending
    /\ blocked
    /\ phase = 2
    /\ pc = "sleep"
    /\ sleep_time = LONG_SLEEP
    /\ keep_waiting

\* C13: a phase that goes on waiting (it is about to sleep again, so it has
\* survivors) more than 10 seconds after its start has logged the "Waiting
\* for N processes to exit..." warning during that phase.
C13_WarnedInEveryPhase ==
    (pc = "sleep" /\ now - start_time > 10 * Hz) => warned

\* C14: "Waiting interrupted" is logged at most once in a run, and once when
\* some call has returned through the cancellation branch.
C14_InterruptedLoggedOnce ==
    /\ log.interrupted <= 1
    /\ CancelReturned => log.interrupted = 1

C14_Witness ==
    /\ pc = "returned"
    /\ phase = 2
    /\ returns = << "cancel", "cancel" >>
    /\ log.interrupted = 1

\* C15: when main() returns after the phases, the "left running" warning has
\* been logged exactly if the last scan found a process alive, and it names
\* every process that scan found alive, the ones whose os.kill raised included.
C15_LeftRunningReported ==
    (outcome = "returned" /\ phase >= 1) =>
        /\ (log.left >= 1) <=> (seen_alive # {})
        /\ seen_alive \subseteq DOMAIN left_running

\* C16: when the NaturalExit call returns because a scan found nothing, there
\* is no Terminate phase, no os.kill, no "left running" warning, and main()
\* returns the exit code it was given.
C16_NothingLeftExitsAtOnce ==
    (returns # << >> /\ returns[1] = "empty") =>
        /\ phase = 1
        /\ Len(returns) = 1
        /\ NoKills
        /\ log.left = 0
        /\ outcome # "raised"
        /\ outcome = "returned" => ret = GivenExitCode

C16_Witness ==
    /\ outcome = "returned"
    /\ returns = << "empty" >>
    /\ sleep_time = LONG_SLEEP
    /\ ret = 3

\* C17: a run whose two durations are non-negative comes to its end: main()
\* returns, unless a scan did not complete (it raised), whatever the processes
\* and the signals do.
C17_EventuallyExits ==
    (phase = 1 /\ exit_wait_times[1].n >= 0 /\ exit_wait_times[2].n >= 0)
        ~> (outcome = "returned" \/ outcome = "raised")

C17_Witness ==
    /\ outcome = "returned"
    /\ exit_wait_env = << "1", "1", ",", "0" >>
    /\ returns = << "timeout", "timeout" >>
    /\ keep_waiting
    /\ ~pending
    /\ 3 \in DOMAIN left_running

\* C18: a call with a negative duration never returns through the timeout
\* branch; when it has returned, its scan found nothing or keep_waiting is
\* False.
C18_ForeverNeverTimesOut ==
    /\ \A i \in 1..Len(returns) :
         exit_wait_times[i].n < 0 => returns[i] \in {"empty", "cancel"}
    /\ (pc = "returned" /\ max_wait.n < 0) =>
         (DOMAIN still_running = {} \/ ~keep_waiting)

C18_Witness ==
    /\ max_wait.n < 0
    /\ pc = "sleep"
    /\ now - start_time > 20 * Hz
    /\ keep_waiting
    /\ 3 \in DOMAIN still_running

\* C19: the exits of the loop are tested only after a whole scan of the call,
\* so what a call returns is what a scan of that call found; when the
\* Terminate call has returned, whatever its duration and whether or not
\* cancellation was requested before it started, os.kill has been called for
\* every process its scan found alive, and every survivor it returns has been
\* sent SIGTERM.
C19_ScanBeforeChecks ==
    /\ pc \in {"check", "enable", "enabled", "sleep", "returned"} =>
         (scanned /\ DOMAIN still_running \subseteq seen_alive)
    /\ (pc = "returned" /\ phase = 2) =>
         /\ \A p \in seen_alive : \E c \in kill_calls : c[1] = p
         /\ \A p \in DOMAIN still_running : sigterms[p] = 1

C19_Witness ==
    /\ pc = "returned"
    /\ phase = 2
    /\ max_wait.n = 0
    /\ now - start_time = 1
    /\ returns = << "timeout", "timeout" >>
    /\ DOMAIN still_running = {3, 4}

\* C20: a run of the handler makes keep_waiting False and changes nothing
\* else of the program; "Waiting interrupted" is logged only by the loop, at
\* its test of keep_waiting.
C20_HandlerOnlyClearsFlag ==
    /\ [][(pending /\ ~pending') =>
            /\ ~keep_waiting'
            /\ UNCHANGED << signals_enabled, keep_waiting_notified, blocked,
                            killed_processes, still_running, stat_files,
                            sleep_time, pc, phase, log, left_running, sigterms,
                            kill_errors, kill_calls, returns, outcome >>]_vars
    /\ [][log.interrupted' # log.interrupted
            => (pc = "check" /\ ~keep_waiting)]_vars

C20_Witness ==
    /\ ~keep_waiting
    /\ ~keep_waiting_notified
    /\ log.interrupted = 0
    /\ pc = "sleep"
    /\ 3 \in DOMAIN still_running

\* The options a bind is documented to take.
RecognizedOptions == {OPTIONAL, READONLY}

SourceOf(b) == Head(split(b))

OptionsOf(b) == Range(Tail(split(b)))

\* A configured bind has an option that is neither optional nor readonly, or
\* its source is missing and it is not marked optional.
SomeBindRefused ==
    \E b \in binds :
        \/ OptionsOf(b) \ RecognizedOptions # {}
        \/ SourceOf(b) \notin existing /\ OPTIONAL \notin OptionsOf(b)

Mounted(path) ==
    \E readonly \in BOOLEAN : MountArgs(path, readonly)[2] \in Range(engine_args)

\* C21: when pyrex run is over, it has, if a configured bind carries an
\* unrecognized option or names a missing source without being optional,
\* got the empty command from prep_container and exited with status 1
\* without starting a container, and otherwise started the container
\* without a mount for any missing source.
C21_BadBindRefused ==
    pyrex_pc = "done" =>
        IF SomeBindRefused
        THEN /\ engine_args = << >>
             /\ pyrex_outcome = "exited"
             /\ pyrex_status = 1
        ELSE /\ pyrex_outcome = "exec"
             /\ \A b \in binds : SourceOf(b) \notin existing => ~Mounted(SourceOf(b))

\* The positions in startup_d of the files the loop would execute.
Executables == { i \in 1..Len(startup_d) : startup_d[i].runnable }

\* C22: the user's command is run only after every startup executable has
\* run, unless PYREX_SKIP_STARTUP is set to something other than "0", in
\* which case none runs; and a startup executable that exited with a status
\* r > 0 is the last one that ran, the entry script has exited with r, and
\* the user's command is not run.
C22_StartupFailureEndsEntry ==
    /\ user_command /\ skip_startup_env \in {Unset, << "0" >>}
           => Range(startup_ran) = Executables
    /\ skip_startup_env \notin {Unset, << "0" >>} => startup_ran = << >>
    /\ \A k \in 1..Len(startup_ran) :
           LET r == startup_d[startup_ran[k]].returncode
           IN  r > 0 => /\ k = Len(startup_ran)
                        /\ entry_pc = "done"
                        /\ entry_status = r
                        /\ ~user_command

\* The second of three startup executables exited with 3 after the first
\* had run: the entry script is over with status 3 and the third never ran.
C22_Witness ==
    /\ entry_pc = "done"
    /\ entry_status = 3
    /\ ~user_command
    /\ Len(startup_d) = 3
    /\ Executables = {1, 2, 3}
    /\ startup_ran = << 1, 2 >>
    /\ startup_d[2].returncode = 3

InLoop == pc \in {"read", "check", "enable", "enabled", "sleep", "returned"}

\* C23: in the Terminate phase every pid of the survivor set of a scan has
\* been sent SIGTERM in this phase, whether it was there at the first scan or
\* is seen for the first time by a later one.
C23_TerminateSurvivorsSignalled ==
    (phase = 2 /\ InLoop) =>
        \A p \in DOMAIN still_running :
            /\ p \in killed_processes
            /\ sigterms[p] >= 1
            /\ \E c \in kill_calls : c[1] = p

C23_Witness ==
    /\ phase = 2
    /\ pc = "check"
    /\ sleep_time = LONG_SLEEP
    /\ last_read = "killed"
    /\ kill_errors[4] = 0
    /\ DOMAIN still_running = {3, 4}

\* C24: in a call the poll interval is 0.01 until the call has lasted more
\* than 2 seconds, 0.5 from the first sleep after that, and never 0.01 again
\* in that call; each call starts at 0.01.
C24_PollInterval ==
    /\ [](sleep_time = LONG_SLEEP => now - start_time > 2 * Hz)
    /\ [][(sleep_time = LONG_SLEEP /\ phase' = phase)
            => sleep_time' = LONG_SLEEP]_vars
    /\ [][(pc = "sleep" /\ pc' = "scan" /\ now - start_time > 2 * Hz)
            => sleep_time' = LONG_SLEEP]_vars
    /\ [][phase' # phase => sleep_time' = [n |-> 1, d |-> 100]]_vars

C24_Witness ==
    /\ phase = 2
    /\ pc = "scan"
    /\ scanned
    /\ sleep_time = SHORT_SLEEP
    /\ start_time > 2 * Hz

\* C25: a call with a duration d >= 0 that returned through the timeout
\* branch has lasted more than d, and at most d plus one sleep and one scan;
\* no sleep is started once d has passed; a run whose two calls timed out has
\* lasted more than the sum of the two durations.
C25_TimeoutAfterDuration ==
    /\ (pc = "returned" /\ Last(returns) = "timeout") =>
         /\ max_wait.n >= 0
         /\ (now - start_time) * max_wait.d > max_wait.n * Hz
         /\ (now - start_time) * max_wait.d
              <= max_wait.n * Hz + (SleepTicks(LONG_SLEEP) + 2 * MaxLate) * max_wait.d
    /\ (pc = "sleep" /\ max_wait.n >= 0) =>
         (now - start_time) * max_wait.d <= max_wait.n * Hz
    /\ returns = << "timeout", "timeout" >> =>
         LET a == exit_wait_times[1]
             b == exit_wait_times[2]
         IN  now * a.d * b.d > (a.n * b.d + b.n * a.d) * Hz

C25_Witness ==
    /\ pc = "returned"
    /\ phase = 2
    /\ returns = << "timeout", "timeout" >>
    /\ max_wait = [n |-> 21, d |-> 2]
    /\ 3 \in DOMAIN still_running

\* C26: the read of a stat file that fails or gives nothing changes neither
\* the survivors nor the signaled pids, calls no os.kill, logs nothing and
\* raises nothing; the scan goes on with the next stat file.
C26_VanishedProcessSkipped ==
    [][(pc = "read" /\ last_read' = "skip" /\ pending' = pending) =>
          /\ UNCHANGED << still_running, killed_processes, sigterms, kill_errors,
                          kill_calls, log, outcome, seen_alive >>
          /\ stat_files' = Tail(stat_files)
          /\ pc' = IF Tail(stat_files) = << >> THEN "check" ELSE "read"]_vars

C26_Witness ==
    /\ phase = 2
    /\ pc = "check"
    /\ last_read = "skip"
    /\ DOMAIN still_running = {3}
    /\ outcome = "running"

\* C27: an os.kill that raises leaves the pid out of killed_processes and out
\* of the survivors of that scan, and the scan goes on; a pid is in
\* killed_processes exactly if a SIGTERM was sent to it, so a pid whose send
\* failed is tried again by the next scan that sees it.
C27_FailedKillRetried ==
    /\ [][\A p \in Pids : kill_errors'[p] > kill_errors[p] =>
            /\ p \notin killed_processes'
            /\ p \notin DOMAIN still_running'
            /\ sigterms' = sigterms
            /\ outcome' = outcome
            /\ stat_files' = Tail(stat_files)
            /\ pc' \in {"read", "check"}]_vars
    /\ [](phase = 2 => \A p \in Pids : p \in killed_processes <=> sigterms[p] = 1)
    /\ []((phase = 2 /\ pc = "check") =>
            \A p \in seen_alive \ DOMAIN still_running :
                p \notin killed_processes /\ kill_errors[p] >= 1)

C27_Witness ==
    /\ phase = 2
    /\ kill_errors[3] = 1
    /\ sigterms[3] = 1
    /\ 3 \in killed_processes
    /\ 3 \in DOMAIN still_running

\* C28: a signal pending while masked stays pending, through the unmasking
\* too, where the handlers are installed; and a run with a signal pending,
\* early enough for one more sleep to fit under the horizon of the clock,
\* comes to its end.
C28_PendingSignalEndsRun ==
    /\ [][(pending /\ blocked) => (pending' /\ keep_waiting')]_vars
    /\ [][(pending /\ blocked /\ ~blocked') => handlers_installed']_vars
    /\ (pending /\ phase >= 1 /\ now + SleepTicks(LONG_SLEEP) <= MaxTime)
          ~> (outcome # "running")

C28_Witness ==
    /\ outcome = "returned"
    /\ exit_wait_env = Unset
    /\ returns = << "timeout", "cancel" >>
    /\ log.interrupted = 1
    /\ 3 \in DOMAIN left_running

\* Both durations of the schedule are at least 0 and less than 10 seconds.
ShortSchedule ==
    /\ phase >= 1
    /\ \A i \in {1, 2} :
         /\ exit_wait_times[i].n >= 0
         /\ exit_wait_times[i].n < 10 * exit_wait_times[i].d

\* C29: the 10 seconds of the unmasking are counted from the start of the
\* call: the unmasking happens more than 10 seconds after start_time, and in
\* a run whose two durations are below 10 seconds it never happens, however
\* long the two calls last together.
C29_ThresholdPerPhase ==
    /\ pc = "enabled" => now - start_time > 10 * Hz
    /\ ShortSchedule =>
         /\ ~signals_enabled
         /\ ~handlers_installed
         /\ keep_waiting
         /\ log.waiting = 0
         /\ log.interrupted = 0

C29_Witness ==
    /\ ShortSchedule
    /\ phase = 2
    /\ pc = "sleep"
    /\ now > 10 * Hz
    /\ now - start_time > 2 * Hz
    /\ pending
    /\ keep_waiting

\* C30: keep_waiting never goes from False to True; keep_waiting_notified
\* implies that keep_waiting is False; and at the loop's test of keep_waiting,
\* and whenever a call has returned because of it, a False keep_waiting comes
\* with a True signals_enabled, although between the unmasking and the
\* assignment the handler can make keep_waiting False first.
C30_FlagsConsistent ==
    /\ [][~keep_waiting => ~keep_waiting']_vars
    /\ [](keep_waiting_notified => ~keep_waiting)
    /\ []((pc \in {"check", "returned"} /\ ~keep_waiting) => signals_enabled)
    /\ [](~keep_waiting => handlers_installed)

C30_Witness ==
    /\ pc = "enabled"
    /\ ~keep_waiting
    /\ ~signals_enabled
    /\ handlers_installed

====
